---- MODULE Spec2Model ----
(***************************************************************************)
(* A model of rust-snek: the platform loader (unix.rs, windows.rs), the    *)
(* library handle Snek (snek/mod.rs), the symbol handle Symbol (symbol.rs) *)
(* and the wrapper generated by the snek! macro (lib.rs).                  *)
(*                                                                         *)
(* Strings are sequences of bytes.  Pointers are naturals, 0 is null.      *)
(* A DWORD is a pair <<high 16 bits, low 16 bits>>.                        *)
(* The dynamic loader of the operating system is the environment: it keeps *)
(* one reference count per loaded library and hands out the same handle    *)
(* for every open of the same library (dlopen and LoadLibraryA both do).   *)
(* Every exported symbol of the modelled libraries has a non-null address. *)
(***************************************************************************)
EXTENDS Integers, Sequences, FiniteSets, TLC

(***************************************************************************)
(* Bounds of the model.                                                    *)
(***************************************************************************)
MaxSneks == 1
MaxSymbols == 1
MaxWrappers == 1
MaxOpens == 2

(***************************************************************************)
(* Strings.                                                                *)
(***************************************************************************)
NULL == 0

\* let v = x; F(v): x is evaluated once, before F.
Let(x, F(_)) == CHOOSE r \in {F(v) : v \in {x}} : TRUE

HasNul(s) == \E i \in DOMAIN s : s[i] = 0

\* CString::new(bytes): Err(NulError) on an interior 0 byte, otherwise the
\* bytes with the terminator appended.  unwrap() panics on the Err.
CStringNew(s) ==
    Let(s, LAMBDA bytes :
        IF HasNul(bytes) THEN [ok |-> FALSE, bytes |-> <<>>]
        ELSE [ok |-> TRUE, bytes |-> Append(bytes, 0)])

\* What a C function reads from a char pointer: the bytes before the first 0.
CStrBytes(c) ==
    Let(c, LAMBDA bytes :
        IF ~HasNul(bytes) THEN bytes
        ELSE SubSeq(bytes, 1,
                    (CHOOSE i \in DOMAIN bytes :
                        bytes[i] = 0 /\ \A k \in 1..(i - 1) : bytes[k] # 0) - 1))

\* to_string_lossy / from_utf8_lossy on the bytes of the model: an ASCII byte
\* is kept, a byte that starts no valid sequence becomes U+FFFD (EF BF BD).
RECURSIVE LossyFrom(_, _)
LossyFrom(bytes, i) ==
    IF i > Len(bytes) THEN <<>>
    ELSE (IF bytes[i] < 128 THEN <<bytes[i]>> ELSE <<239, 191, 189>>)
         \o LossyFrom(bytes, i + 1)

ToStringLossy(s) == Let(s, LAMBDA bytes : LossyFrom(bytes, 1))

\* "Unknown Error"
UnknownError == <<85, 110, 107, 110, 111, 119, 110, 32, 69, 114, 114, 111, 114>>

(***************************************************************************)
(* The inputs: paths and symbol names.                                     *)
(***************************************************************************)
\* "libexample.so"
PathExample == <<108, 105, 98, 101, 120, 97, 109, 112, 108, 101, 46, 115, 111>>
\* "libdoesnotexist.so"
PathMissing == <<108, 105, 98, 100, 111, 101, 115, 110, 111, 116, 101, 120,
                 105, 115, 116, 46, 115, 111>>
\* "lib\0.so": an interior NUL byte
PathNul == <<108, 105, 98, 0, 46, 115, 111>>
Paths == {PathExample, PathMissing, PathNul}

\* "add", "hello", "nope", "gone", "a\0d"
NameAdd == <<97, 100, 100>>
NameHello == <<104, 101, 108, 108, 111>>
NameNope == <<110, 111, 112, 101>>
NameGone == <<103, 111, 110, 101>>
NameNul == <<97, 0, 100>>
Names == {NameAdd, NameNope, NameNul}

(***************************************************************************)
(* The environment: the file system and the libraries' export tables.      *)
(***************************************************************************)
HExample == 4096
Handles == {HExample}

FileLib(p) == IF p = PathExample THEN HExample ELSE NULL

Exports(h) == IF h = HExample THEN {NameAdd, NameHello} ELSE {}

SymAddr(h, n) ==
    IF h = HExample /\ n = NameAdd THEN 70001
    ELSE IF h = HExample /\ n = NameHello THEN 70002
    ELSE NULL

\* The error codes a failing LoadLibraryA or GetProcAddress may leave behind:
\* ERROR_MOD_NOT_FOUND (126) and a code of the library's own with the top bit
\* set (0xE0000001), for which the system has no message.
WinCodes == {<<0, 126>>, <<57344, 1>>}

\* "MOD", "PROC"
MsgModNotFound == <<77, 79, 68>>
MsgProcNotFound == <<80, 82, 79, 67>>

\* The system message table FormatMessageA looks the code up in.
SystemMessage(d) ==
    IF d = <<32775, 126>> THEN MsgModNotFound
    ELSE IF d = <<32775, 127>> THEN MsgProcNotFound
    ELSE <<>>

\* ": cannot open", "undefined symbol: ", "invalid handle"
MsgCannotOpen == <<58, 32, 99, 97, 110, 110, 111, 116>>
MsgUndefined == <<117, 110, 100, 101, 102, 58, 32>>
MsgInvalid == <<105, 110, 118, 97, 108, 105, 100>>

(***************************************************************************)
(* The platform.  A machine m is the platform's state while one operation  *)
(* of the library runs:                                                    *)
(*   rc       reference count per handle                                   *)
(*   dlerr    the loader's last-error slot (POSIX)                         *)
(*   lasterr  the thread's last-error code (Windows)                       *)
(*   buf      the buffer FormatMessageA allocated                          *)
(*   calls    the platform calls issued, in order                          *)
(*   undef    undefined behaviour has happened: nothing is known of the    *)
(*            process from then on, and the model stops there              *)
(*   env      what the environment decides: the error code a failing       *)
(*            Windows call records                                         *)
(***************************************************************************)
NoErr == [set |-> FALSE, msg |-> <<>>]
NoBuf == [live |-> FALSE, bytes |-> <<>>]

\* A platform call: the function, the handle and the name it was given, what
\* it returned, and the diagnostic it recorded (a failing open or resolve) or
\* read (a last-error read, a format).
Call(f, h, n, r, d) == [fn |-> f, h |-> h, name |-> n, ret |-> r, diag |-> d]

Issue(m, c) == [m EXCEPT !.calls = Append(@, c)]

Undefined(m) == [m EXCEPT !.undef = TRUE]

Opened(m, h) == h \in Handles /\ m.rc[h] > 0

dlopen(m, cpath) ==
    Let(CStrBytes(cpath), LAMBDA p :
        IF FileLib(p) # NULL
        THEN [m |-> Issue([m EXCEPT !.rc[FileLib(p)] = @ + 1],
                          Call("open", FileLib(p), p, FileLib(p), <<>>)),
              ret |-> FileLib(p)]
        ELSE [m |-> Issue([m EXCEPT !.dlerr = [set |-> TRUE, msg |-> p \o MsgCannotOpen]],
                          Call("open", NULL, p, NULL, p \o MsgCannotOpen)),
              ret |-> NULL])

dlsym(m, h, cname) ==
    Let(CStrBytes(cname), LAMBDA n :
        IF ~Opened(m, h)
        THEN [m |-> Issue(Undefined([m EXCEPT !.dlerr = [set |-> TRUE, msg |-> MsgInvalid]]),
                          Call("resolve", h, n, NULL, MsgInvalid)),
              ret |-> NULL]
        ELSE IF n \in Exports(h)
        THEN [m |-> Issue(m, Call("resolve", h, n, SymAddr(h, n), <<>>)),
              ret |-> SymAddr(h, n)]
        ELSE [m |-> Issue([m EXCEPT !.dlerr = [set |-> TRUE, msg |-> MsgUndefined \o n]],
                          Call("resolve", h, n, NULL, MsgUndefined \o n)),
              ret |-> NULL])

dlclose(m, h) ==
    IF Opened(m, h)
    THEN Issue([m EXCEPT !.rc[h] = @ - 1], Call("close", h, <<>>, NULL, <<>>))
    ELSE Issue(Undefined(m), Call("close", h, <<>>, NULL, <<>>))

\* dlerror() returns the slot and clears it.
dlerror(m) ==
    [m |-> Issue([m EXCEPT !.dlerr = NoErr], Call("lasterror", NULL, <<>>, NULL, m.dlerr.msg)),
     ret |-> m.dlerr]

LoadLibraryA(m, cpath) ==
    Let(CStrBytes(cpath), LAMBDA p :
        IF FileLib(p) # NULL
        THEN [m |-> Issue([m EXCEPT !.rc[FileLib(p)] = @ + 1],
                          Call("open", FileLib(p), p, FileLib(p), <<>>)),
              ret |-> FileLib(p)]
        ELSE [m |-> Issue([m EXCEPT !.lasterr = m.env.code],
                          Call("open", NULL, p, NULL, m.env.code)),
              ret |-> NULL])

GetProcAddress(m, h, cname) ==
    Let(CStrBytes(cname), LAMBDA n :
        IF ~Opened(m, h)
        THEN [m |-> Issue(Undefined([m EXCEPT !.lasterr = m.env.code]),
                          Call("resolve", h, n, NULL, m.env.code)),
              ret |-> NULL]
        ELSE IF n \in Exports(h)
        THEN [m |-> Issue(m, Call("resolve", h, n, SymAddr(h, n), <<>>)),
              ret |-> SymAddr(h, n)]
        ELSE [m |-> Issue([m EXCEPT !.lasterr = m.env.code],
                          Call("resolve", h, n, NULL, m.env.code)),
              ret |-> NULL])

FreeLibrary(m, h) ==
    IF Opened(m, h)
    THEN Issue([m EXCEPT !.rc[h] = @ - 1], Call("close", h, <<>>, NULL, <<>>))
    ELSE Issue(Undefined(m), Call("close", h, <<>>, NULL, <<>>))

GetLastError(m) ==
    [m |-> Issue(m, Call("lasterror", NULL, <<>>, NULL, m.lasterr)), ret |-> m.lasterr]

\* FORMAT_MESSAGE_ALLOCATE_BUFFER: a buffer is allocated when a message is
\* found; the return value is the number of characters stored.
FormatMessageA(m, d) ==
    Let(SystemMessage(d), LAMBDA msg :
        IF msg = <<>>
        THEN [m |-> Issue(m, Call("format", NULL, <<>>, 0, <<>>)),
              num_chars |-> 0]
        ELSE [m |-> Issue([m EXCEPT !.buf = [live |-> TRUE, bytes |-> msg]],
                          Call("format", NULL, <<>>, Len(msg), msg)),
              num_chars |-> Len(msg)])

LocalFree(m) ==
    Issue([m EXCEPT !.buf = NoBuf], Call("free", NULL, <<>>, NULL, <<>>))

\* slice::from_raw_parts(buffer, n): the first n bytes of the buffer; the
\* message is no longer there once the buffer is freed.
FromRawParts(m, n) ==
    IF m.buf.live THEN SubSeq(m.buf.bytes, 1, n) ELSE <<>>

(***************************************************************************)
(* Results.  tag is "Ok", "Err" or "Panic" (an unwrap() of an Err).        *)
(***************************************************************************)
Ok(v) == [tag |-> "Ok", kind |-> "", msg |-> <<>>, val |-> v]
Err(k, s) == [tag |-> "Err", kind |-> k, msg |-> s, val |-> NULL]
Panic == [tag |-> "Panic", kind |-> "", msg |-> <<>>, val |-> NULL]

(***************************************************************************)
(* snek/unix.rs                                                            *)
(***************************************************************************)
\* A variant of unix_last_error that tests dlerror() for null and then calls it
\* again for the text: the second call finds the slot cleared.
unix_last_error_twice(m) ==
    Let(dlerror(m), LAMBDA first :
        Let(dlerror(first.m), LAMBDA e :
            IF e.ret.set THEN [m |-> e.m, str |-> ToStringLossy(e.ret.msg)]
            ELSE [m |-> Undefined(e.m), str |-> <<>>]))

\* CStr::from_ptr(dlerror()).to_string_lossy().into_owned(); reading through
\* a null pointer is undefined.
unix_last_error(m) ==
    Let(dlerror(m), LAMBDA e :
        IF e.ret.set THEN [m |-> e.m, str |-> ToStringLossy(e.ret.msg)]
        ELSE [m |-> Undefined(e.m), str |-> <<>>])

unix_load_library(m, path) ==
    Let(CStringNew(ToStringLossy(path)), LAMBDA path_string :
        IF ~path_string.ok THEN [m |-> m, res |-> Panic]
        ELSE Let(dlopen(m, path_string.bytes), LAMBDA result :
                 IF result.ret = NULL
                 THEN Let(unix_last_error(result.m), LAMBDA error :
                          [m |-> error.m, res |-> Err("LibraryLoadError", error.str)])
                 ELSE [m |-> result.m, res |-> Ok(result.ret)]))

unix_load_symbol(m, handle, symbol) ==
    Let(CStringNew(symbol), LAMBDA string :
        IF ~string.ok THEN [m |-> m, res |-> Panic]
        ELSE Let(dlsym(m, handle, string.bytes), LAMBDA result :
                 IF result.ret = NULL
                 THEN Let(unix_last_error(result.m), LAMBDA error :
                          [m |-> error.m, res |-> Err("SymbolLoadError", error.str)])
                 ELSE [m |-> result.m, res |-> Ok(result.ret)]))

unix_drop_library(m, handle) == dlclose(m, handle)

(***************************************************************************)
(* snek/windows.rs                                                         *)
(***************************************************************************)
FACILITY_WIN32 == 7

\* win32 as HRESULT <= 0: the value is zero or its top bit is set.  Otherwise
\* (win32 & 0x0000FFFF) | (FACILITY_WIN32 << 16) | 0x80000000.
hresult_from_win32(win32) ==
    IF win32 = <<0, 0>> \/ win32[1] >= 32768
    THEN win32
    ELSE <<FACILITY_WIN32 + 32768, win32[2]>>

\* A variant of hresult_to_string that frees the buffer before it copies the
\* message out of it.
hresult_to_string_freed(m, hr) ==
    Let(FormatMessageA(m, hr), LAMBDA r :
        IF r.num_chars = 0
        THEN [m |-> r.m, some |-> FALSE, str |-> <<>>]
        ELSE Let(LocalFree(r.m), LAMBDA freed :
                 [m |-> freed, some |-> TRUE,
                  str |-> ToStringLossy(FromRawParts(freed, r.num_chars))]))

hresult_to_string(m, hr) ==
    Let(FormatMessageA(m, hr), LAMBDA r :
        IF r.num_chars = 0
        THEN [m |-> r.m, some |-> FALSE, str |-> <<>>]
        ELSE Let(ToStringLossy(FromRawParts(r.m, r.num_chars)), LAMBDA message :
                 [m |-> LocalFree(r.m), some |-> TRUE, str |-> message]))

last_error_hr(m) ==
    Let(GetLastError(m), LAMBDA r :
        [m |-> r.m, ret |-> hresult_from_win32(r.ret)])

last_error_string(m) ==
    Let(last_error_hr(m), LAMBDA r : hresult_to_string(r.m, r.ret))

\* last_error_string().unwrap_or_else(|| "Unknown Error".into())
windows_last_error(m) ==
    Let(last_error_string(m), LAMBDA e :
        [m |-> e.m, str |-> IF e.some THEN e.str ELSE UnknownError])

windows_load_library(m, path) ==
    Let(CStringNew(ToStringLossy(path)), LAMBDA path_string :
        IF ~path_string.ok THEN [m |-> m, res |-> Panic]
        ELSE Let(LoadLibraryA(m, path_string.bytes), LAMBDA module :
                 IF module.ret = NULL
                 THEN Let(windows_last_error(module.m), LAMBDA error :
                          [m |-> error.m, res |-> Err("LibraryLoadError", error.str)])
                 ELSE [m |-> module.m, res |-> Ok(module.ret)]))

windows_load_symbol(m, handle, symbol) ==
    Let(CStringNew(symbol), LAMBDA string :
        IF ~string.ok THEN [m |-> m, res |-> Panic]
        ELSE Let(GetProcAddress(m, handle, string.bytes), LAMBDA result :
                 IF result.ret = NULL
                 THEN Let(windows_last_error(result.m), LAMBDA error :
                          [m |-> error.m, res |-> Err("SymbolLoadError", error.str)])
                 ELSE [m |-> result.m, res |-> Ok(result.ret)]))

windows_drop_library(m, handle) == FreeLibrary(m, handle)

(***************************************************************************)
(* snek/mod.rs: the backend is chosen when the crate is built.             *)
(***************************************************************************)
Backends == {"unix", "windows"}

\* A variant of load_library whose error carries no diagnostic.
load_library_unit(b, m, path) ==
    Let(IF b = "unix" THEN unix_load_library(m, path) ELSE windows_load_library(m, path),
        LAMBDA r : IF r.res.tag = "Err" THEN [m |-> r.m, res |-> Err(r.res.kind, <<>>)] ELSE r)

load_library(b, m, path) ==
    IF b = "unix" THEN unix_load_library(m, path) ELSE windows_load_library(m, path)

\* A variant of load_symbol that releases the library when the lookup fails.
load_symbol_closing(b, m, handle, symbol) ==
    Let(IF b = "unix" THEN unix_load_symbol(m, handle, symbol)
        ELSE windows_load_symbol(m, handle, symbol),
        LAMBDA r : IF r.res.tag = "Err"
                   THEN [m |-> IF b = "unix" THEN dlclose(r.m, handle) ELSE FreeLibrary(r.m, handle),
                         res |-> r.res]
                   ELSE r)

load_symbol(b, m, handle, symbol) ==
    IF b = "unix" THEN unix_load_symbol(m, handle, symbol)
    ELSE windows_load_symbol(m, handle, symbol)

drop_library(b, m, handle) ==
    IF b = "unix" THEN unix_drop_library(m, handle) ELSE windows_drop_library(m, handle)

\* Symbol::new
Symbol_new(symbol) == [symbol |-> symbol]

\* Snek::load: load_library(path).map(|result| Snek { handle: result })
Snek_load(b, m, path) ==
    Let(load_library(b, m, path), LAMBDA r :
        [m |-> r.m, res |-> r.res,
         snek |-> [handle |-> IF r.res.tag = "Ok" THEN r.res.val ELSE NULL]])

\* Snek::symbol: load_symbol(self.handle, symbol).map(|result| Symbol::new(result))
Snek_symbol(b, m, handle, symbol) ==
    Let(load_symbol(b, m, handle, symbol), LAMBDA r :
        [m |-> r.m, res |-> r.res,
         sym |-> IF r.res.tag = "Ok" THEN Symbol_new(r.res.val) ELSE Symbol_new(NULL)])

\* A variant of Drop for Snek that forgets to release the library.
Snek_drop_forget(b, m, handle) == m

\* impl Drop for Snek
Snek_drop(b, m, handle) == drop_library(b, m, handle)

(***************************************************************************)
(* symbol.rs: Symbol::with                                                 *)
(***************************************************************************)
PtrSize == 8

\* The little-endian bytes of a pointer-sized value.
RECURSIVE ToBytes(_, _)
ToBytes(v, k) == IF k = 0 THEN <<>> ELSE <<v % 256>> \o ToBytes(v \div 256, k - 1)

RECURSIVE FromBytesAt(_, _)
FromBytesAt(bs, i) == IF i > Len(bs) THEN 0 ELSE bs[i] + 256 * FromBytesAt(bs, i + 1)

FromBytes(bytes) == Let(bytes, LAMBDA bs : FromBytesAt(bs, 1))

\* ptr::read(&self.symbol as *const _ as *const T): the first size_of::<T>()
\* bytes of the field, taken as a T.
PtrRead(symbol, size) == FromBytes(SubSeq(ToBytes(symbol, PtrSize), 1, size))

\* The transforms of the model: f.size is size_of::<T>() of the parameter type,
\* f.body what the closure does with the value: "bits" returns it, "call"
\* calls it as extern fn(c_int, c_int) -> c_int with the arguments f.x, f.y.
Transforms ==
    {[size |-> 8, body |-> "bits", x |-> 0, y |-> 0],
     [size |-> 2, body |-> "bits", x |-> 0, y |-> 0],
     [size |-> 8, body |-> "call", x |-> 3, y |-> 7]}

\* The address of an exported function of a library that is loaded.
Callable(m, value) ==
    \E h \in Handles : Opened(m, h) /\ \E n \in Exports(h) : SymAddr(h, n) = value

\* The transform is called with the value.  What the exported functions do:
\* add returns the sum, hello returns nothing.  A call through an address
\* that is no function of a loaded library is undefined.
Invoke(m, f, value) ==
    Let([m EXCEPT !.fcalls = Append(@, [arg |-> value, body |-> f.body])], LAMBDA noted :
        IF f.body = "bits" THEN [m |-> noted, ret |-> value]
        ELSE IF ~Callable(m, value) THEN [m |-> Undefined(noted), ret |-> 0]
        ELSE IF \E h \in Handles : SymAddr(h, NameAdd) = value
        THEN [m |-> noted, ret |-> f.x + f.y]
        ELSE [m |-> noted, ret |-> 0])

\* A variant of with that moves the address out of the Symbol: the field is
\* left null.
Symbol_with_take(m, symbol, f) ==
    Let(PtrRead(symbol, f.size), LAMBDA value :
        Let(Invoke(m, f, value), LAMBDA r :
            [m |-> r.m, ret |-> r.ret, self |-> Symbol_new(NULL)]))

\* with takes &self: ptr::read copies the bits and leaves the field as it is.
Symbol_with(m, symbol, f) ==
    Let(PtrRead(symbol, f.size), LAMBDA value :
        Let(Invoke(m, f, value), LAMBDA r :
            [m |-> r.m, ret |-> r.ret, self |-> Symbol_new(symbol)]))

(***************************************************************************)
(* lib.rs: the struct the snek! macro generates.                           *)
(***************************************************************************)
\* A variant of ResolveFields that resolves every declared symbol and reports
\* the first failure afterwards.
RECURSIVE ResolveFieldsAll(_, _, _, _, _)
ResolveFieldsAll(b, m, handle, decls, acc) ==
    IF decls = <<>> THEN [m |-> m, res |-> Ok(handle), syms |-> acc]
    ELSE Let(load_symbol(b, m, handle, Head(decls)), LAMBDA r :
             Let([rest |-> Tail(decls), syms |-> Append(acc, Symbol_new(r.res.val))],
                 LAMBDA next :
                   Let(ResolveFieldsAll(b, r.m, handle, next.rest, next.syms), LAMBDA all :
                       IF r.res.tag = "Ok" THEN all
                       ELSE [m |-> all.m, res |-> r.res, syms |-> <<>>])))

\* The field initialisers of the struct expression, in declaration order;
\* the first Err returns from load.
RECURSIVE ResolveFields(_, _, _, _, _)
ResolveFields(b, m, handle, decls, acc) ==
    IF decls = <<>> THEN [m |-> m, res |-> Ok(handle), syms |-> acc]
    ELSE Let(load_symbol(b, m, handle, Head(decls)), LAMBDA r :
             IF r.res.tag = "Ok"
             THEN Let([rest |-> Tail(decls), syms |-> Append(acc, Symbol_new(r.res.val))],
                      LAMBDA next : ResolveFields(b, r.m, handle, next.rest, next.syms))
             ELSE [m |-> r.m, res |-> r.res, syms |-> <<>>])

Wrapper_load(b, m, path, decls) ==
    Let(load_library(b, m, path), LAMBDA r :
        IF r.res.tag # "Ok" THEN [m |-> r.m, res |-> r.res, syms |-> <<>>]
        ELSE ResolveFields(b, r.m, r.res.val, decls, <<>>))

\* pub fn $symbol(&self, ..) { self.$symbol.with(|f: extern fn(..) -> _| f(..)) }
Wrapper_method(m, syms, i, x, y) ==
    Symbol_with(m, syms[i].symbol, [size |-> PtrSize, body |-> "call", x |-> x, y |-> y])

\* impl Drop for the generated struct
Wrapper_drop(b, m, handle) == drop_library(b, m, handle)

\* The declarations of the wrappers of the model.
DeclLists ==
    {<<NameAdd, NameHello>>, <<NameAdd, NameNope, NameGone>>, <<NameNope, NameAdd>>}

(***************************************************************************)
(* The program: a client of the crate's public interface.                  *)
(***************************************************************************)
VARIABLES
    backend,    \* the backend compiled in
    refcount,   \* platform: reference count per handle
    dlerr,      \* platform: the POSIX last-error slot
    lasterr,    \* platform: the Windows last-error code
    msgbuf,     \* platform: the buffer FormatMessageA allocated
    undef,      \* undefined behaviour has happened
    sneks,      \* the Snek values created, by id
    symbols,    \* the Symbol values obtained from Snek::symbol, by id
    wrappers,   \* the values of snek!-generated structs, by id
    raw,        \* the handles the client got from load_library
    balance,    \* per handle: successful opens so far minus closes issued so far
    last        \* the last operation: what was called, what it returned,
                \* the platform calls and the transform calls it made

vars == <<backend, refcount, dlerr, lasterr, msgbuf, undef, sneks, symbols,
          wrappers, raw, balance, last>>

SnekIds == 1..MaxSneks
SymbolIds == 1..MaxSymbols
WrapperIds == 1..MaxWrappers

NoSnek == [st |-> "none", handle |-> NULL, closes |-> 0]
NoSymbol == [st |-> "none", owner |-> 0, symbol |-> NULL, name |-> <<>>]
NoWrapper == [st |-> "none", handle |-> NULL, decls |-> <<>>, syms |-> <<>>, closes |-> 0]
NoTransform == [size |-> 0, body |-> "", x |-> 0, y |-> 0]

Last(op, id, arg, decls, f, res, m) ==
    [op |-> op, id |-> id, arg |-> arg, decls |-> decls, f |-> f, res |-> res,
     calls |-> m.calls, fcalls |-> m.fcalls, rc |-> refcount]

NOpens(calls, h) ==
    Cardinality({i \in DOMAIN calls : calls[i].fn = "open" /\ calls[i].ret = h})

NCloses(calls, h) ==
    Cardinality({i \in DOMAIN calls : calls[i].fn = "close" /\ calls[i].h = h})

Envs == [code : IF backend = "windows" THEN WinCodes ELSE {<<0, 0>>}]

\* The environment of an operation that makes no call that can fail.
NoEnv == [code |-> <<0, 0>>]

Machine(e) ==
    [rc |-> refcount, dlerr |-> dlerr, lasterr |-> lasterr, buf |-> msgbuf,
     calls |-> <<>>, fcalls |-> <<>>, undef |-> undef, env |-> e]

Commit(m, l) ==
    /\ refcount' = m.rc
    /\ dlerr' = m.dlerr
    /\ lasterr' = m.lasterr
    /\ msgbuf' = m.buf
    /\ undef' = m.undef
    /\ balance' = [h \in Handles |-> balance[h] + NOpens(m.calls, h) - NCloses(m.calls, h)]
    /\ last' = l

\* The process runs until undefined behaviour happens.
Running == ~undef

\* The model's bound on the operations that open.
CanOpen == \A h \in Handles : refcount[h] < MaxOpens

Free(objs, ids) == {i \in ids : objs[i].st = "none" /\ \A k \in ids : k < i => objs[k].st # "none"}

\* Symbol<'a> borrows the Snek for 'a: the Snek cannot be dropped while a
\* Symbol obtained from it is alive.
Borrowed(s) == \E j \in SymbolIds : symbols[j].st = "live" /\ symbols[j].owner = s

Init ==
    /\ backend \in Backends
    /\ refcount = [h \in Handles |-> 0]
    /\ dlerr = NoErr
    /\ lasterr = <<0, 0>>
    /\ msgbuf = NoBuf
    /\ undef = FALSE
    /\ sneks = [s \in SnekIds |-> NoSnek]
    /\ symbols = [j \in SymbolIds |-> NoSymbol]
    /\ wrappers = [w \in WrapperIds |-> NoWrapper]
    /\ raw = {}
    /\ balance = [h \in Handles |-> 0]
    /\ last = [op |-> "", id |-> 0, arg |-> <<>>, decls |-> <<>>, f |-> NoTransform,
               res |-> Ok(NULL), calls |-> <<>>, fcalls |-> <<>>, rc |-> refcount]

\* Snek::load(path)
SnekLoad ==
    /\ Running /\ CanOpen
    /\ \E path \in Paths, e \in Envs, s \in Free(sneks, SnekIds) :
         \E m0 \in {Machine(e)} :
           \E r \in {Snek_load(backend, m0, path)} :
             /\ sneks' = IF r.res.tag = "Ok"
                         THEN [sneks EXCEPT ![s] = [st |-> "live", handle |-> r.snek.handle,
                                                    closes |-> NCloses(r.m.calls, r.snek.handle)]]
                         ELSE sneks
             /\ Commit(r.m, Last("Snek::load", s, path, <<>>, NoTransform, r.res, r.m))
             /\ UNCHANGED <<backend, symbols, wrappers, raw>>

\* snek.symbol(name); the Symbol is kept when the client has room for it.
SnekSymbol ==
    /\ Running
    /\ \E s \in SnekIds, name \in Names, e \in Envs :
         /\ sneks[s].st = "live"
         /\ \E m0 \in {Machine(e)}, free \in {Free(symbols, SymbolIds)} :
              \E r \in {Snek_symbol(backend, m0, sneks[s].handle, name)} :
                /\ symbols' = IF r.res.tag = "Ok" /\ free # {}
                              THEN [j \in SymbolIds |->
                                      IF j \in free
                                      THEN [st |-> "live", owner |-> s,
                                            symbol |-> r.sym.symbol, name |-> name]
                                      ELSE symbols[j]]
                              ELSE symbols
                /\ sneks' = [sneks EXCEPT ![s].closes = @ + NCloses(r.m.calls, sneks[s].handle)]
                /\ Commit(r.m, Last("Snek::symbol", s, name, <<>>, NoTransform, r.res, r.m))
                /\ UNCHANGED <<backend, wrappers, raw>>

\* unsafe { symbol.with(f) }
SymbolWith ==
    /\ Running
    /\ \E j \in SymbolIds, f \in Transforms :
         /\ symbols[j].st = "live"
         /\ \E m0 \in {Machine(NoEnv)} :
              \E r \in {Symbol_with(m0, symbols[j].symbol, f)} :
                /\ symbols' = [symbols EXCEPT ![j].symbol = r.self.symbol]
                /\ Commit(r.m, Last("Symbol::with", j, symbols[j].name, <<>>, f, Ok(r.ret), r.m))
                /\ UNCHANGED <<backend, sneks, wrappers, raw>>

\* A Symbol goes out of scope.
SymbolDrop ==
    /\ Running
    /\ \E j \in SymbolIds :
         /\ symbols[j].st = "live"
         /\ symbols' = [symbols EXCEPT ![j].st = "gone"]
         /\ UNCHANGED <<backend, refcount, dlerr, lasterr, msgbuf, undef, sneks,
                        wrappers, raw, balance, last>>

\* A Snek goes out of scope: Drop for Snek.
SnekDrop ==
    /\ Running
    /\ \E s \in SnekIds :
         /\ sneks[s].st = "live" /\ ~Borrowed(s)
         /\ \E m0 \in {Machine(NoEnv)} :
              \E m \in {Snek_drop(backend, m0, sneks[s].handle)} :
                /\ sneks' = [sneks EXCEPT ![s].st = "dropped",
                                          ![s].closes = @ + NCloses(m.calls, sneks[s].handle)]
                /\ Commit(m, Last("Snek::drop", s, <<>>, <<>>, NoTransform, Ok(NULL), m))
                /\ UNCHANGED <<backend, symbols, wrappers, raw>>

\* The re-exported load_library, load_symbol and drop_library.
RawLoadLibrary ==
    /\ Running /\ CanOpen
    /\ \E path \in Paths, e \in Envs :
         \E m0 \in {Machine(e)} :
           \E r \in {load_library(backend, m0, path)} :
             /\ raw' = IF r.res.tag = "Ok" THEN raw \cup {r.res.val} ELSE raw
             /\ Commit(r.m, Last("load_library", 0, path, <<>>, NoTransform, r.res, r.m))
             /\ UNCHANGED <<backend, sneks, symbols, wrappers>>

RawLoadSymbol ==
    /\ Running
    /\ \E h \in raw, name \in Names, e \in Envs :
         \E m0 \in {Machine(e)} :
           \E r \in {load_symbol(backend, m0, h, name)} :
             /\ Commit(r.m, Last("load_symbol", 0, name, <<>>, NoTransform, r.res, r.m))
             /\ UNCHANGED <<backend, sneks, symbols, wrappers, raw>>

RawDropLibrary ==
    /\ Running
    /\ \E h \in raw :
         \E m0 \in {Machine(NoEnv)} :
           \E m \in {drop_library(backend, m0, h)} :
             /\ Commit(m, Last("drop_library", 0, <<>>, <<>>, NoTransform, Ok(NULL), m))
             /\ UNCHANGED <<backend, sneks, symbols, wrappers, raw>>

\* Example::load(path) of a snek!-generated struct
WrapperLoad ==
    /\ Running /\ CanOpen
    /\ \E path \in Paths, decls \in DeclLists, e \in Envs, w \in Free(wrappers, WrapperIds) :
         \E m0 \in {Machine(e)} :
           \E r \in {Wrapper_load(backend, m0, path, decls)} :
             /\ wrappers' = IF r.res.tag = "Ok"
                            THEN [wrappers EXCEPT ![w] =
                                    [st |-> "live", handle |-> r.res.val, decls |-> decls,
                                     syms |-> r.syms, closes |-> NCloses(r.m.calls, r.res.val)]]
                            ELSE wrappers
             /\ Commit(r.m, Last("Wrapper::load", w, path, decls, NoTransform, r.res, r.m))
             /\ UNCHANGED <<backend, sneks, symbols, raw>>

\* example.add(x, y)
WrapperCall ==
    /\ Running
    /\ \E w \in WrapperIds, x \in {2}, y \in {4} :
         /\ wrappers[w].st = "live"
         /\ \E i \in DOMAIN wrappers[w].syms, m0 \in {Machine(NoEnv)} :
              \E r \in {Wrapper_method(m0, wrappers[w].syms, i, x, y)} :
                /\ Commit(r.m, Last("Wrapper::method", w, wrappers[w].decls[i], wrappers[w].decls,
                                    [size |-> PtrSize, body |-> "call", x |-> x, y |-> y],
                                    Ok(r.ret), r.m))
                /\ UNCHANGED <<backend, sneks, symbols, wrappers, raw>>

\* Drop for the generated struct
WrapperDrop ==
    /\ Running
    /\ \E w \in WrapperIds :
         /\ wrappers[w].st = "live"
         /\ \E m0 \in {Machine(NoEnv)} :
              \E m \in {Wrapper_drop(backend, m0, wrappers[w].handle)} :
                /\ wrappers' = [wrappers EXCEPT ![w].st = "dropped",
                                                ![w].closes = @ + NCloses(m.calls, wrappers[w].handle)]
                /\ Commit(m, Last("Wrapper::drop", w, <<>>, wrappers[w].decls, NoTransform, Ok(NULL), m))
                /\ UNCHANGED <<backend, sneks, symbols, raw>>

Next ==
    \/ SnekLoad
    \/ SnekSymbol
    \/ SymbolWith
    \/ SymbolDrop
    \/ SnekDrop
    \/ RawLoadLibrary
    \/ RawLoadSymbol
    \/ RawDropLibrary
    \/ WrapperLoad
    \/ WrapperCall
    \/ WrapperDrop

Spec == Init /\ [][Next]_vars

\* A client that uses Snek, Symbol and the re-exported functions.
NextSnek ==
    \/ SnekLoad
    \/ SnekSymbol
    \/ SymbolWith
    \/ SymbolDrop
    \/ SnekDrop
    \/ RawLoadLibrary
    \/ RawLoadSymbol
    \/ RawDropLibrary

SpecSnek == Init /\ [][NextSnek]_vars

\* A client that uses snek!-generated structs and the re-exported functions.
NextWrapper ==
    \/ WrapperLoad
    \/ WrapperCall
    \/ WrapperDrop
    \/ RawLoadLibrary
    \/ RawLoadSymbol
    \/ RawDropLibrary

SpecWrapper == Init /\ [][NextWrapper]_vars

(***************************************************************************)
(* Properties.                                                             *)
(***************************************************************************)
Idx(calls, f) == {i \in DOMAIN calls : calls[i].fn = f}

IsResolve(c) == c.fn = "resolve"

\* The handle of the Snek the last operation was called on.
LastSnekHandle == sneks[last.id].handle

\* The text Windows has for the error codes of the model.
WinText(code) == IF code = <<0, 126>> THEN MsgModNotFound ELSE UnknownError

\* C1: a Snek issues no close while it lives (neither in load nor in symbol,
\* whether it succeeds or fails) and exactly one close, for its own handle,
\* when it is dropped.
C1_CloseOnceAtDrop ==
    /\ \A s \in SnekIds :
         /\ sneks[s].st \in {"none", "live"} => sneks[s].closes = 0
         /\ sneks[s].st = "dropped" => sneks[s].closes = 1
    /\ last.op \in {"Snek::load", "Snek::symbol"} => Idx(last.calls, "close") = {}
    /\ last.op = "Snek::drop" =>
         /\ Cardinality(Idx(last.calls, "close")) = 1
         /\ \A i \in Idx(last.calls, "close") : last.calls[i].h = LastSnekHandle

\* A Snek was dropped after a symbol was resolved from it and another lookup
\* on it failed or succeeded.
C1_Witness ==
    /\ last.op = "Snek::drop"
    /\ sneks[last.id].st = "dropped" /\ sneks[last.id].closes = 1
    /\ \E j \in SymbolIds : symbols[j].st = "gone" /\ symbols[j].owner = last.id

\* C2: when the generated load opened the library and a declared symbol failed
\* to resolve, the handle it opened has been closed once when load returns.
C2_ReleasedOnFailure ==
    (last.op = "Wrapper::load" /\ last.res.tag = "Err" /\ last.res.kind = "SymbolLoadError")
    => \A h \in Handles :
         NOpens(last.calls, h) = 1 => NCloses(last.calls, h) = 1 /\ refcount[h] = last.rc[h]

\* C3: no sequence of public operations issues more closes for a handle than
\* there were successful opens of it.
C3_NoDoubleClose == \A h \in Handles : balance[h] >= 0

\* C4: a Symbol obtained from Snek::symbol, or held by a generated struct, is
\* invoked only while the library it was resolved from is loaded.
C4_InvokedWhileOpen ==
    /\ last.op = "Symbol::with" => last.rc[sneks[symbols[last.id].owner].handle] > 0
    /\ last.op = "Wrapper::method" => last.rc[wrappers[last.id].handle] > 0

\* What C5 says of a lookup: a SymbolLoadError with a non-empty text, no close,
\* the library as loaded as before, the Snek alive.
C5_Failed ==
    /\ last.res.tag = "Err" /\ last.res.kind = "SymbolLoadError" /\ last.res.msg # <<>>
    /\ Idx(last.calls, "close") = {}
    /\ refcount = last.rc
    /\ sneks[last.id].st = "live" /\ sneks[last.id].closes = 0

\* C5 as stated: every name the library does not export, looked up on a live
\* Snek whose library is loaded, gives the SymbolLoadError.
C5_Original ==
    (/\ last.op = "Snek::symbol"
     /\ last.rc[LastSnekHandle] > 0
     /\ last.arg \notin Exports(LastSnekHandle))
    => C5_Failed

\* C5 amended: the same for the names without an interior NUL byte; a name with
\* one panics before any platform call; and an exported name resolves to its
\* address whatever lookups failed before.
C5_FailedLookupLeavesSnek ==
    (last.op = "Snek::symbol" /\ last.rc[LastSnekHandle] > 0) =>
        /\ (last.arg \notin Exports(LastSnekHandle) /\ ~HasNul(last.arg)) => C5_Failed
        /\ HasNul(last.arg) =>
             /\ last.res.tag = "Panic" /\ last.calls = <<>>
             /\ refcount = last.rc /\ sneks[last.id].st = "live"
        /\ last.arg \in Exports(LastSnekHandle) =>
             /\ last.res.tag = "Ok"
             /\ last.res.val = SymAddr(LastSnekHandle, last.arg)

\* A lookup of "nope" failed on a Snek from which a symbol had been resolved.
C5_Witness ==
    /\ last.op = "Snek::symbol" /\ last.arg = NameNope /\ last.res.tag = "Err"
    /\ last.rc[LastSnekHandle] > 0
    /\ \E j \in SymbolIds : symbols[j].st = "live" /\ symbols[j].owner = last.id

\* What C6 says of a load: a LibraryLoadError with a non-empty text, no Snek,
\* no close.
C6_Failed ==
    /\ last.res.tag = "Err" /\ last.res.kind = "LibraryLoadError" /\ last.res.msg # <<>>
    /\ sneks[last.id].st = "none"
    /\ Idx(last.calls, "close") = {}

\* C6 as stated: every path that names no library gives the LibraryLoadError
\* and never a panic.
C6_Original ==
    (last.op = "Snek::load" /\ FileLib(last.arg) = NULL) => C6_Failed

\* C6 amended: the same for the paths without an interior NUL byte; a path
\* with one panics, before any platform call and without a Snek.
C6_InvalidPathIsLoadError ==
    (last.op = "Snek::load" /\ FileLib(last.arg) = NULL) =>
        /\ ~HasNul(last.arg) => C6_Failed
        /\ HasNul(last.arg) =>
             /\ last.res.tag = "Panic" /\ last.calls = <<>>
             /\ sneks[last.id].st = "none"

\* Snek::load of "libdoesnotexist.so" failed.
C6_Witness ==
    last.op = "Snek::load" /\ last.arg = PathMissing /\ last.res.tag = "Err"

\* C7: after an open or a resolve that returned null, the next platform call
\* is the last-error read, it reads the diagnostic that call recorded, and the
\* Error carries it (on Windows: its text).
C7_ErrorReadImmediately ==
    \A i \in DOMAIN last.calls :
        (last.calls[i].fn \in {"open", "resolve"} /\ last.calls[i].ret = NULL) =>
            /\ i + 1 \in DOMAIN last.calls
            /\ last.calls[i + 1].fn = "lasterror"
            /\ last.calls[i + 1].diag = last.calls[i].diag
            /\ last.res.tag = "Err"
            /\ backend = "unix" => last.res.msg = last.calls[i].diag
            /\ backend = "windows" => last.res.msg = WinText(last.calls[i].diag)

\* load_symbol failed on the POSIX backend.
C7_Witness ==
    /\ backend = "unix" /\ last.op = "load_symbol" /\ last.res.tag = "Err"
    /\ \E i \in DOMAIN last.calls : last.calls[i].fn = "resolve" /\ last.calls[i].ret = NULL

\* C8: the generated load resolves the declared names in order up to the first
\* one the library does not export, returns that name's error and no struct;
\* it returns a struct only when every name resolved.
C8_FirstFailureStops ==
    (last.op = "Wrapper::load" /\ \E i \in Idx(last.calls, "open") : last.calls[i].ret # NULL) =>
        LET h == last.calls[1].ret
            d == last.decls
            bad == {i \in DOMAIN d : d[i] \notin Exports(h)}
            k == IF bad = {} THEN Len(d) + 1 ELSE CHOOSE i \in bad : \A j \in bad : i <= j
            resolves == SelectSeq(last.calls, IsResolve)
        IN  /\ Len(resolves) = IF k <= Len(d) THEN k ELSE Len(d)
            /\ \A i \in DOMAIN resolves : resolves[i].name = d[i]
            /\ k <= Len(d) =>
                 /\ last.res.tag = "Err" /\ last.res.kind = "SymbolLoadError"
                 /\ backend = "unix" => last.res.msg = MsgUndefined \o d[k]
                 /\ backend = "windows" => last.res.msg = WinText(resolves[k].diag)
                 /\ wrappers[last.id].st = "none"
            /\ k > Len(d) =>
                 /\ last.res.tag = "Ok"
                 /\ wrappers[last.id].st = "live"
                 /\ wrappers[last.id].syms = [i \in DOMAIN d |-> [symbol |-> SymAddr(h, d[i])]]

\* The generated load of {add, nope, gone} failed at nope.
C8_Witness ==
    /\ last.op = "Wrapper::load" /\ last.decls = <<NameAdd, NameNope, NameGone>>
    /\ last.res.tag = "Err" /\ last.res.kind = "SymbolLoadError"

\* C9: with calls the transform once, with the stored address when the
\* parameter type has the size of a pointer, and returns what the transform
\* returns; the stored address stays the address that was resolved.
C9_WithPassesStoredAddress ==
    /\ last.op = "Symbol::with" =>
         LET sym == symbols[last.id]
             h == sneks[sym.owner].handle
         IN  /\ Len(last.fcalls) = 1
             /\ sym.symbol = SymAddr(h, sym.name)
             /\ last.f.size = PtrSize => last.fcalls[1].arg = sym.symbol
             /\ last.f.body = "bits" => last.res.val = last.fcalls[1].arg
             /\ (last.f.body = "call" /\ sym.name = NameAdd /\ last.rc[h] > 0)
                  => last.res.val = last.f.x + last.f.y
    /\ last.op = "Wrapper::method" =>
         LET w == wrappers[last.id]
         IN  /\ Len(last.fcalls) = 1
             /\ \E i \in DOMAIN w.decls :
                  /\ w.decls[i] = last.arg
                  /\ last.fcalls[1].arg = SymAddr(w.handle, w.decls[i])
             /\ (last.arg = NameAdd /\ last.rc[w.handle] > 0)
                  => last.res.val = last.f.x + last.f.y

\* with was called on the Symbol of add with a closure that calls it with 3, 7.
C9_Witness ==
    /\ last.op = "Symbol::with" /\ last.f.body = "call"
    /\ symbols[last.id].name = NameAdd /\ last.res.val = 10

\* C10: on Windows a failed open or resolve whose code has no message text
\* returns the Error with "Unknown Error" and frees nothing; with a message
\* text the Error carries it and the buffer is freed once, after the format.
C10_UnknownErrorAndFree ==
    (backend = "windows" /\ last.res.tag = "Err") =>
        /\ Cardinality(Idx(last.calls, "format")) = 1
        /\ \A i \in Idx(last.calls, "format") :
             /\ last.calls[i].ret = 0 =>
                  /\ last.res.msg = UnknownError
                  /\ Idx(last.calls, "free") = {}
             /\ last.calls[i].ret > 0 =>
                  /\ Cardinality(Idx(last.calls, "free")) = 1
                  /\ \A j \in Idx(last.calls, "free") : j > i
                  /\ last.res.msg = last.calls[i].diag
                  /\ Len(last.res.msg) = last.calls[i].ret
        /\ msgbuf = NoBuf

\* A load failed on Windows with a code that has no message text.
C10_Witness ==
    /\ backend = "windows" /\ last.res.tag = "Err" /\ last.res.msg = UnknownError
    /\ \E i \in Idx(last.calls, "format") : last.calls[i].ret = 0

====
